---- MODULE Spec2Model ----
(***************************************************************************)
(* Model of the OpenCode manager core: the project registry and its port   *)
(* cursor, the process supervisor (startServer / stopServer and the exit   *)
(* and error observers of a spawned worker) and the event hub (one         *)
(* upstream event stream per project fanned out to local SSE sinks).       *)
(*                                                                         *)
(* The program runs on one event-loop thread.  An action of this model is  *)
(* one run-to-completion slice of a handler: the code between two awaits   *)
(* that wait for I/O (a port probe, a health fetch, a stream read, a       *)
(* timer).                                                                 *)
(***************************************************************************)
EXTENDS Integers, Sequences, FiniteSets, TLC

\* ------------------------------------------------------------------ bounds
PathSeq == <<"p1", "p2">>     \* the project paths, in the order first ensured
Paths == {PathSeq[i] : i \in DOMAIN PathSeq}
MaxCalls == 1                 \* startServer calls in flight together (Spec)
MaxWorkers == 1               \* child processes spawned in a behaviour (Spec)
Sinks == {"s1", "s2"}         \* SSE responses that can subscribe to a path
MaxStreams == 2               \* startEventForwarding tasks alive at a time
MaxRetries == 1               \* retry timers pending per path
MaxCleanups == 2              \* cleanup() invocations (one per signal received)
MaxObjects == 3               \* ProjectEntry objects allocated in a behaviour
MaxSnapshots == 1             \* getAll() calls in a behaviour
MaxClock == 1                 \* the latest value Date.now() takes

\* ------------------------------------------------------- program constants
BasePort == 4097              \* ProjectRegistry.nextPort initial value
MaxPort == 4196               \* findAvailablePort's default maxPort
ScanLow == 4000               \* scanExistingOpenCodePorts accepts N >= 4000
ScanHigh == 5000              \* ... and N <= 5000

StreamIds == 1 .. MaxStreams
CleanupIds == 1 .. MaxCleanups
Null == "null"
SessionIds == {"ses1"}

\* ---------------------------------------------------------------- state
VARIABLES
    registry,     \* ProjectRegistry.registry: path -> ProjectEntry
    nextPort,     \* ProjectRegistry.nextPort, the port cursor
    processes,    \* opencode.ts `processes`: path -> pid of the tracked handle
    workers,      \* the ChildProcess objects spawn() returns, indexed by pid;
                  \* st = "none" marks a pid not handed out yet
    occupied,     \* ports bound by processes the manager did not spawn
    calls,        \* the startServer invocations and where each one is suspended
    stopRet,      \* what the stopServer call that just ran returned, if one did
    subRet,       \* how the events route that just ran answered, if one did,
                  \* or that the response of a sink has just closed
    attach,       \* ports that have an `opencode attach` process (ps aux)
    sigAttach,    \* per such port, the SIGTERMs its attach process was sent
    cleanups,     \* the cleanup() invocations and where each one stands
    sigKill,      \* pids forceKillAll has sent SIGKILL to
    sigWorker,    \* per pid, the termination signals delivered to that worker
    connections,  \* events.ts `connections`: path -> set of SSE responses
    activeStreams,\* events.ts `activeStreams`: path -> its AbortController
    streams,      \* the startEventForwarding tasks, one slot per controller
    retry,        \* per path, the retry timers (setTimeout 5000) not yet fired
    written,      \* the event a forwarding task has just read, if one did, and
                  \* the sinks broadcast wrote it to
    entryHeap,    \* every ProjectEntry object created, by address
    mapHeap,      \* every Registry object created: path -> address of its entry
    snapshots,    \* what getAll returned: the object, and what it showed then
    clock,        \* new Date(): the time stamps are taken from it
    regRet,       \* what the ProjectRegistry.update call that just ran was
                  \* given and returned, if one did
    boot,         \* index.ts start-up: has the cursor been seeded from the
                  \* process scan, is the HTTP listener started
    halted        \* the startServer calls in flight for a path when a
                  \* stopServer of that path returned true

supVars == <<registry, nextPort, processes, workers, occupied, calls,
             stopRet, attach, sigWorker>>
hubVars == <<connections, activeStreams, streams, retry, written>>
vars == <<registry, nextPort, processes, workers, occupied, calls,
          stopRet, attach, sigWorker, connections, activeStreams, streams,
          retry, written, subRet, sigAttach, cleanups, sigKill,
          entryHeap, mapHeap, snapshots, clock, regRet, boot, halted>>
managerVars == <<registry, nextPort, processes, workers, occupied, calls,
                 stopRet, attach, sigWorker, connections, activeStreams,
                 streams, retry, written, subRet, sigAttach, cleanups,
                 sigKill, boot, halted>>
objVars == <<entryHeap, mapHeap, snapshots, clock, regRet>>
shutVars == <<cleanups, sigKill>>

\* ------------------------------------------------------ registry (pure)
\* ProjectRegistry.get: undefined is modelled by p \notin DOMAIN registry.
Has(reg, p) == p \in DOMAIN reg

\* ProjectRegistry.add: this.registry[projectPath] = fullEntry
RegistryAdd(reg, p, entry) ==
    [q \in (DOMAIN reg) \cup {p} |-> IF q = p THEN entry ELSE reg[q]]

\* { ...existing, ...updates }: a field of updates wins over the existing one.
Merge(existing, updates) ==
    LET pick(f) == IF f \in DOMAIN updates THEN updates[f] ELSE existing[f] IN
    [port |-> pick("port"), pid |-> pick("pid"), status |-> pick("status"),
     hasTUI |-> pick("hasTUI"), tmuxPane |-> pick("tmuxPane"),
     sessionId |-> pick("sessionId")]

\* ProjectRegistry.update: no-op when the key is absent
RegistryUpdate(reg, p, updates) ==
    IF ~Has(reg, p) THEN reg
    ELSE [reg EXCEPT ![p] = Merge(@, updates)]

EmptyMap == [q \in {} |-> 0]

\* ProjectRegistry.remove
RegistryRemove(reg, p) == [q \in (DOMAIN reg) \ {p} |-> reg[q]]

\* processes.delete(projectPath)
ProcDelete(procs, p) == [q \in (DOMAIN procs) \ {p} |-> procs[q]]

\* processes.set(projectPath, proc)
ProcSet(procs, p, pid) ==
    [q \in (DOMAIN procs) \cup {p} |-> IF q = p THEN pid ELSE procs[q]]

\* The entry startServer hands to registry.add.
NewEntry(port, pid) ==
    [port |-> port, pid |-> pid, status |-> "starting", hasTUI |-> FALSE,
     tmuxPane |-> Null, sessionId |-> Null]

\* ------------------------------------- registry objects (status-page.ts)
\* The registry as the objects it is made of, for what a holder of a
\* reference can see.  mapHeap[ThisRegistry] is the object in this.registry.
\* Entries carry their two time stamps here.
ThisRegistry == 1

\* No update call has just run.
NoRet == [op |-> "none"]

\* update returned undefined.
Undefined == 0

InitObjects ==
    /\ entryHeap = <<>>
    /\ mapHeap = <<EmptyMap>>
    /\ snapshots = <<>>
    /\ clock = 0
    /\ regRet = NoRet

\* What the Registry object at address m shows: its keys and their entries.
View(m) == [p \in DOMAIN mapHeap[m] |-> entryHeap[mapHeap[m][p]]]

\* The entry startServer adds for the i-th path, and updates it applies.
AddEntry(p) ==
    LET i == CHOOSE m \in DOMAIN PathSeq : PathSeq[m] = p IN
    NewEntry(BasePort + i, i)
Updates == {[status |-> "running"]}

\* { ...entry, startedAt: now, lastActivity: now }
FullEntry(entry, now) ==
    [port |-> entry.port, pid |-> entry.pid, status |-> entry.status,
     hasTUI |-> entry.hasTUI, tmuxPane |-> entry.tmuxPane,
     sessionId |-> entry.sessionId, startedAt |-> now, lastActivity |-> now]

\* { ...existing, ...updates, lastActivity: now }
Updated(existing, updates, now) ==
    LET m == Merge(existing, updates) IN
    [port |-> m.port, pid |-> m.pid, status |-> m.status,
     hasTUI |-> m.hasTUI, tmuxPane |-> m.tmuxPane, sessionId |-> m.sessionId,
     startedAt |-> IF "startedAt" \in DOMAIN updates THEN updates.startedAt
                   ELSE existing.startedAt,
     lastActivity |-> now]

\* Time passes.
Tick ==
    /\ clock < MaxClock
    /\ clock' = clock + 1
    /\ regRet' = NoRet
    /\ UNCHANGED <<entryHeap, mapHeap, snapshots>>
    /\ UNCHANGED managerVars

\* add, lines 763-775: a new object, stored under the key.
RegAdd(p, entry) ==
    /\ Len(entryHeap) < MaxObjects
    /\ entryHeap' = Append(entryHeap, FullEntry(entry, clock))
    /\ mapHeap' = [mapHeap EXCEPT
                      ![ThisRegistry] = RegistryAdd(@, p, Len(entryHeap) + 1)]
    /\ regRet' = NoRet
    /\ UNCHANGED <<snapshots, clock>>
    /\ UNCHANGED managerVars

\* RegUpdate that stores the updates under a key the registry does not have.
RegUpdateUpsert(p, updates) ==
    /\ Len(entryHeap) < MaxObjects
    /\ entryHeap' = Append(entryHeap,
            IF Has(mapHeap[ThisRegistry], p)
            THEN Updated(entryHeap[mapHeap[ThisRegistry][p]], updates, clock)
            ELSE Updated(FullEntry(NewEntry(0, 0), clock), updates, clock))
    /\ mapHeap' = [mapHeap EXCEPT
            ![ThisRegistry] = RegistryAdd(@, p, Len(entryHeap) + 1)]
    /\ regRet' = [op |-> "update", path |-> p, updates |-> updates,
                  ret |-> Len(entryHeap) + 1]
    /\ UNCHANGED <<snapshots, clock>>
    /\ UNCHANGED managerVars

\* update, lines 777-791: undefined for a missing key; otherwise a new object
\* { ...existing, ...updates, lastActivity } replaces the one under the key
\* and is returned.
RegUpdate(p, updates) ==
    /\ IF ~Has(mapHeap[ThisRegistry], p)
       THEN /\ UNCHANGED <<entryHeap, mapHeap>>
            /\ regRet' = [op |-> "update", path |-> p, updates |-> updates,
                          ret |-> Undefined]
       ELSE /\ Len(entryHeap) < MaxObjects
            /\ entryHeap' = Append(entryHeap,
                    Updated(entryHeap[mapHeap[ThisRegistry][p]], updates,
                            clock))
            /\ mapHeap' = [mapHeap EXCEPT
                    ![ThisRegistry] = RegistryAdd(@, p, Len(entryHeap) + 1)]
            /\ regRet' = [op |-> "update", path |-> p, updates |-> updates,
                          ret |-> Len(entryHeap) + 1]
    /\ UNCHANGED <<snapshots, clock>>
    /\ UNCHANGED managerVars

\* remove, lines 793-799: delete this.registry[projectPath]
RegRemove(p) ==
    /\ Has(mapHeap[ThisRegistry], p)
    /\ mapHeap' = [mapHeap EXCEPT ![ThisRegistry] = RegistryRemove(@, p)]
    /\ regRet' = NoRet
    /\ UNCHANGED <<entryHeap, snapshots, clock>>
    /\ UNCHANGED managerVars

\* setTUI, lines 801-813
RegSetTUI(p, tmuxPane) == RegUpdate(p, [hasTUI |-> TRUE, tmuxPane |-> tmuxPane])

\* clearTUI, lines 815-822
RegClearTUI(p) == RegUpdate(p, [hasTUI |-> FALSE, tmuxPane |-> Null])

\* RegGetAll that hands out this.registry itself.
RegGetAllLive ==
    /\ Len(snapshots) < MaxSnapshots
    /\ snapshots' = Append(snapshots,
                           [ref |-> ThisRegistry, seen |-> View(ThisRegistry)])
    /\ regRet' = NoRet
    /\ UNCHANGED <<entryHeap, mapHeap, clock>>
    /\ UNCHANGED managerVars

\* getAll, lines 728-730: { ...this.registry }, a new Registry object with
\* the same keys, each holding the same entry object.
RegGetAll ==
    /\ Len(snapshots) < MaxSnapshots
    /\ mapHeap' = Append(mapHeap, mapHeap[ThisRegistry])
    /\ snapshots' = Append(snapshots,
                           [ref |-> Len(mapHeap) + 1,
                            seen |-> View(ThisRegistry)])
    /\ regRet' = NoRet
    /\ UNCHANGED <<entryHeap, clock>>
    /\ UNCHANGED managerVars

\* --------------------------------------------------------- environment
Pids == {w \in DOMAIN workers : workers[w].st # "none"}

\* The pids spawn() can still hand out; the lowest one is used next.
FreePids == {w \in DOMAIN workers : workers[w].st = "none"}
NextPid == CHOOSE w \in FreePids : \A v \in FreePids : w <= v

NoWorker == [path |-> "-", port |-> 0, st |-> "none"]

\* The startServer call slots of the behaviour.
CallIds == DOMAIN calls

Alive(w) == workers[w].st \in {"up", "healthy"}

\* A port is bound when a foreign process or a listening worker holds it.
Bound(port) ==
    \/ port \in occupied
    \/ \E w \in Pids : workers[w].st = "healthy" /\ workers[w].port = port

\* isPortAvailable: the bind succeeds iff nobody holds the port.
IsPortAvailable(port) == ~Bound(port)

\* checkHealth / isServerHealthy: GET /global/health answers healthy === true.
IsServerHealthy(port) ==
    \E w \in Pids : workers[w].st = "healthy" /\ workers[w].port = port

\* A cleanup() that has not been invoked.  pc: "completed" (the try block ran
\* to its end) or "forced" (the catch block ran forceKillAll); race: how
\* Promise.race settled; second: an earlier cleanup had already been invoked
\* (the process exits 100 ms after a cleanup, so it was still in flight);
\* pids: the workers of the entries the registry had at the invocation.
IdleCleanup ==
    [pc |-> "idle", race |-> "pending", second |-> FALSE, pids |-> {}]

\* stopRet when the step just taken was not a stopServer call.
NoStop == "none"

\* subRet when the step just taken was not the events route.
NoSub == "none"

\* ------------------------------------------------------------- startServer
\* how: "existing" (the running entry's port was returned), "spawned" (a
\* worker with a pid was spawned) or "nopid" (spawn gave no pid).
IdleCall ==
    [pc |-> "idle", path |-> "-", port |-> 0, free |-> FALSE,
     outcome |-> "none", how |-> "none", overlap |-> {}]

InFlight(c) == calls[c].pc \in {"health", "probe", "wait"}

\* registry.allocatePort up to the first bind attempt of findAvailablePort:
\* the loop starts at the cursor read now; a cursor above maxPort throws.
BeginAllocate(call) ==
    IF nextPort > MaxPort
    THEN [call EXCEPT !.pc = "done", !.outcome = "PortExhausted"]
    ELSE [call EXCEPT !.pc = "probe", !.port = nextPort,
                      !.free = IsPortAvailable(nextPort)]

\* The calls that are in flight for one of the paths ps.
Halts(ps) == {c \in CallIds : InFlight(c) /\ calls[c].path \in ps}

\* The calls in flight when call c starts: recorded on both sides so that a
\* property can speak of two calls that were in flight at the same time.
MarkOverlap(cs, c) ==
    LET others == {d \in CallIds : d # c /\ InFlight(d)} IN
    [d \in CallIds |->
        IF d = c THEN [cs[d] EXCEPT !.overlap = others]
        ELSE IF d \in others THEN [cs[d] EXCEPT !.overlap = @ \cup {c}]
        ELSE cs[d]]

\* startServer(projectPath), lines 213-223: the synchronous head of the call.
\* The routes that call it are served once the listener is started.
EnsureStart(c, p) ==
    /\ boot.listening
    /\ calls[c].pc = "idle"
    /\ \A d \in CallIds : d < c => calls[d].pc # "idle"   \* lowest free slot
    /\ LET fresh == [IdleCall EXCEPT !.path = p] IN
       IF Has(registry, p) /\ registry[p].status = "running"
       THEN calls' = MarkOverlap(
                [calls EXCEPT ![c] = [fresh EXCEPT !.pc = "health",
                                                   !.port = registry[p].port]], c)
       ELSE calls' = MarkOverlap(
                [calls EXCEPT ![c] = BeginAllocate(fresh)], c)
    /\ stopRet' = NoStop
    /\ UNCHANGED boot
    /\ UNCHANGED halted
    /\ UNCHANGED objVars
    /\ UNCHANGED <<sigAttach, cleanups, sigKill>>
    /\ subRet' = NoSub
    /\ UNCHANGED hubVars
    /\ UNCHANGED <<registry, nextPort, processes, workers, occupied,
                   attach, sigWorker>>

\* Lines 216-221: the health fetch of the existing entry's port answers.
EnsureHealthResult(c) ==
    /\ calls[c].pc = "health"
    /\ IF IsServerHealthy(calls[c].port)
       THEN /\ calls' = [calls EXCEPT ![c].pc = "done", ![c].outcome = "ok",
                                      ![c].how = "existing"]
            /\ UNCHANGED registry
       ELSE /\ registry' = RegistryUpdate(registry, calls[c].path,
                                          [status |-> "stopped"])
            /\ calls' = [calls EXCEPT ![c] = BeginAllocate(calls[c])]
    /\ stopRet' = NoStop
    /\ UNCHANGED boot
    /\ UNCHANGED halted
    /\ UNCHANGED objVars
    /\ UNCHANGED <<sigAttach, cleanups, sigKill>>
    /\ subRet' = NoSub
    /\ UNCHANGED hubVars
    /\ UNCHANGED <<nextPort, processes, workers, occupied,
                   attach, sigWorker>>

\* findAvailablePort: the probed port was taken; bind the next one or throw.
EnsureProbeNext(c) ==
    /\ calls[c].pc = "probe"
    /\ ~calls[c].free
    /\ IF calls[c].port + 1 > MaxPort
       THEN calls' = [calls EXCEPT ![c].pc = "done",
                                   ![c].outcome = "PortExhausted"]
       ELSE calls' = [calls EXCEPT ![c].port = @ + 1,
                                   ![c].free = IsPortAvailable(calls[c].port + 1)]
    /\ stopRet' = NoStop
    /\ UNCHANGED boot
    /\ UNCHANGED halted
    /\ UNCHANGED objVars
    /\ UNCHANGED <<sigAttach, cleanups, sigKill>>
    /\ subRet' = NoSub
    /\ UNCHANGED hubVars
    /\ UNCHANGED <<registry, nextPort, processes, workers, occupied,
                   attach, sigWorker>>

\* EnsureSpawn whose allocatePort leaves the cursor on the port it returned.
EnsureSpawnCursorAtPort(c) ==
    /\ calls[c].pc = "probe"
    /\ calls[c].free
    /\ FreePids # {}
    /\ LET pid == NextPid
           p == calls[c].path
           port == calls[c].port IN
       /\ nextPort' = port
       /\ workers' = [workers EXCEPT
                         ![pid] = [path |-> p, port |-> port, st |-> "up"]]
       /\ processes' = ProcSet(processes, p, pid)
       /\ registry' = RegistryAdd(registry, p, NewEntry(port, pid))
       /\ calls' = [calls EXCEPT ![c].pc = "wait", ![c].free = FALSE,
                                 ![c].how = "spawned"]
    /\ stopRet' = NoStop
    /\ UNCHANGED boot
    /\ UNCHANGED halted
    /\ UNCHANGED objVars
    /\ UNCHANGED <<sigAttach, cleanups, sigKill>>
    /\ subRet' = NoSub
    /\ UNCHANGED hubVars
    /\ UNCHANGED <<occupied, attach, sigWorker>>

\* Lines 223-285: the probe succeeded; the cursor moves past the port, the
\* worker is spawned and obtains a pid, the handle is tracked, the entry is
\* added with status starting, and the call suspends in waitForServer.
EnsureSpawn(c) ==
    /\ calls[c].pc = "probe"
    /\ calls[c].free
    /\ FreePids # {}
    /\ LET pid == NextPid
           p == calls[c].path
           port == calls[c].port IN
       /\ nextPort' = port + 1
       /\ workers' = [workers EXCEPT
                         ![pid] = [path |-> p, port |-> port, st |-> "up"]]
       /\ processes' = ProcSet(processes, p, pid)
       /\ registry' = RegistryAdd(registry, p, NewEntry(port, pid))
       /\ calls' = [calls EXCEPT ![c].pc = "wait", ![c].free = FALSE,
                                 ![c].how = "spawned"]
    /\ stopRet' = NoStop
    /\ UNCHANGED boot
    /\ UNCHANGED halted
    /\ UNCHANGED objVars
    /\ UNCHANGED <<sigAttach, cleanups, sigKill>>
    /\ subRet' = NoSub
    /\ UNCHANGED hubVars
    /\ UNCHANGED <<occupied, attach, sigWorker>>

\* Lines 223-269 and 295 with 255-258: the probe succeeded but spawn fails
\* (no pid): `if (proc.pid)` is skipped, the call returns the port, and the
\* 'error' observer marks whatever entry the path has as error.
EnsureSpawnFail(c) ==
    /\ calls[c].pc = "probe"
    /\ calls[c].free
    /\ FreePids # {}
    /\ nextPort' = calls[c].port + 1
    /\ workers' = [workers EXCEPT
                      ![NextPid] = [path |-> calls[c].path,
                                    port |-> calls[c].port, st |-> "failed"]]
    /\ registry' = RegistryUpdate(registry, calls[c].path, [status |-> "error"])
    /\ calls' = [calls EXCEPT ![c].pc = "done", ![c].outcome = "ok",
                              ![c].free = FALSE, ![c].how = "nopid"]
    /\ stopRet' = NoStop
    /\ UNCHANGED boot
    /\ UNCHANGED halted
    /\ UNCHANGED objVars
    /\ UNCHANGED <<sigAttach, cleanups, sigKill>>
    /\ subRet' = NoSub
    /\ UNCHANGED hubVars
    /\ UNCHANGED <<processes, occupied, attach, sigWorker>>

\* waitForServer + lines 285-287: a poll found the port healthy.
EnsureReady(c) ==
    /\ calls[c].pc = "wait"
    /\ IsServerHealthy(calls[c].port)
    /\ registry' = RegistryUpdate(registry, calls[c].path, [status |-> "running"])
    /\ calls' = [calls EXCEPT ![c].pc = "done", ![c].outcome = "ok"]
    /\ stopRet' = NoStop
    /\ UNCHANGED boot
    /\ UNCHANGED halted
    /\ UNCHANGED objVars
    /\ UNCHANGED <<sigAttach, cleanups, sigKill>>
    /\ subRet' = NoSub
    /\ UNCHANGED hubVars
    /\ UNCHANGED <<nextPort, processes, workers, occupied, attach,
                   sigWorker>>

\* EnsureTimeout with the catch block's registry.update left out.
EnsureTimeoutNoUpdate(c) ==
    /\ calls[c].pc = "wait"
    /\ ~IsServerHealthy(calls[c].port)
    /\ calls' = [calls EXCEPT ![c].pc = "done", ![c].outcome = "HealthTimeout"]
    /\ stopRet' = NoStop
    /\ UNCHANGED boot
    /\ UNCHANGED halted
    /\ UNCHANGED objVars
    /\ UNCHANGED <<sigAttach, cleanups, sigKill>>
    /\ subRet' = NoSub
    /\ UNCHANGED hubVars
    /\ UNCHANGED <<registry, nextPort, processes, workers, occupied, attach,
                   sigWorker>>

\* waitForServer + lines 288-291: the last poll before the deadline failed.
EnsureTimeout(c) ==
    /\ calls[c].pc = "wait"
    /\ ~IsServerHealthy(calls[c].port)
    /\ registry' = RegistryUpdate(registry, calls[c].path, [status |-> "error"])
    /\ calls' = [calls EXCEPT ![c].pc = "done", ![c].outcome = "HealthTimeout"]
    /\ stopRet' = NoStop
    /\ UNCHANGED boot
    /\ UNCHANGED halted
    /\ UNCHANGED objVars
    /\ UNCHANGED <<sigAttach, cleanups, sigKill>>
    /\ subRet' = NoSub
    /\ UNCHANGED hubVars
    /\ UNCHANGED <<nextPort, processes, workers, occupied, attach,
                   sigWorker>>

\* The route handler answered; the call slot is free again.
EnsureReturn(c) ==
    /\ calls[c].pc = "done"
    /\ calls' = [d \in CallIds |->
                    IF d = c THEN IdleCall
                    ELSE [calls[d] EXCEPT !.overlap = @ \ {c}]]
    /\ stopRet' = NoStop
    /\ UNCHANGED boot
    /\ halted' = halted \ {c}
    /\ UNCHANGED objVars
    /\ UNCHANGED <<sigAttach, cleanups, sigKill>>
    /\ subRet' = NoSub
    /\ UNCHANGED hubVars
    /\ UNCHANGED <<registry, nextPort, processes, workers, occupied,
                   attach, sigWorker>>

\* ------------------------------------------------------------ the worker
\* The worker binds its port and starts answering the health endpoint.
WorkerListen(w) ==
    /\ workers[w].st = "up"
    /\ ~Bound(workers[w].port)
    /\ workers' = [workers EXCEPT ![w].st = "healthy"]
    /\ stopRet' = NoStop
    /\ UNCHANGED boot
    /\ UNCHANGED halted
    /\ UNCHANGED objVars
    /\ UNCHANGED <<sigAttach, cleanups, sigKill>>
    /\ subRet' = NoSub
    /\ UNCHANGED hubVars
    /\ UNCHANGED <<registry, nextPort, processes, occupied, calls, attach, sigWorker>>

\* The worker process dies (any exit code); its port is released at once,
\* the manager has not yet seen the 'exit' event.
WorkerDie(w) ==
    /\ Alive(w)
    /\ workers' = [workers EXCEPT ![w].st = "dead"]
    /\ stopRet' = NoStop
    /\ UNCHANGED boot
    /\ UNCHANGED halted
    /\ UNCHANGED objVars
    /\ UNCHANGED <<sigAttach, cleanups, sigKill>>
    /\ subRet' = NoSub
    /\ UNCHANGED hubVars
    /\ UNCHANGED <<registry, nextPort, processes, occupied, calls, attach, sigWorker>>

\* A program the manager did not spawn closes the port it held.
ForeignExit(port) ==
    /\ port \in occupied
    /\ occupied' = occupied \ {port}
    /\ stopRet' = NoStop
    /\ UNCHANGED boot
    /\ UNCHANGED halted
    /\ UNCHANGED objVars
    /\ UNCHANGED <<sigAttach, cleanups, sigKill>>
    /\ subRet' = NoSub
    /\ UNCHANGED hubVars
    /\ UNCHANGED <<registry, nextPort, processes, workers, calls, attach,
                   sigWorker>>

\* OnExit that records the stop but forgets to clear the session id.
OnExitKeepsSession(w) ==
    /\ workers[w].st = "dead"
    /\ workers' = [workers EXCEPT ![w].st = "exited"]
    /\ processes' = ProcDelete(processes, workers[w].path)
    /\ registry' = RegistryUpdate(registry, workers[w].path,
                                  [status |-> "stopped"])
    /\ stopRet' = NoStop
    /\ UNCHANGED boot
    /\ UNCHANGED halted
    /\ UNCHANGED objVars
    /\ UNCHANGED <<sigAttach, cleanups, sigKill>>
    /\ subRet' = NoSub
    /\ UNCHANGED hubVars
    /\ UNCHANGED <<nextPort, occupied, calls, attach, sigWorker>>

\* proc.on("exit"), lines 260-267.
OnExit(w) ==
    /\ workers[w].st = "dead"
    /\ workers' = [workers EXCEPT ![w].st = "exited"]
    /\ processes' = ProcDelete(processes, workers[w].path)
    /\ registry' = RegistryUpdate(registry, workers[w].path,
                                  [status |-> "stopped", sessionId |-> Null])
    /\ stopRet' = NoStop
    /\ UNCHANGED boot
    /\ UNCHANGED halted
    /\ UNCHANGED objVars
    /\ UNCHANGED <<sigAttach, cleanups, sigKill>>
    /\ subRet' = NoSub
    /\ UNCHANGED hubVars
    /\ UNCHANGED <<nextPort, occupied, calls, attach,
                   sigWorker>>

\* -------------------------------------------------------------- stopServer
\* sigAttach after n more SIGTERMs were sent to the attach process of a port.
Signalled(sig, port, n) ==
    [q \in (DOMAIN sig) \cup {port} |->
        IF q # port THEN sig[q]
        ELSE IF port \in DOMAIN sig THEN sig[port] + n ELSE n]

\* killAttachProcesses(port): SIGTERM to every attach process of the port
\* that `ps aux` lists.  The process stays listed until it has exited.
KillAttachProcesses(port) ==
    /\ attach' = attach
    /\ sigAttach' = IF port \in attach THEN Signalled(sigAttach, port, 1)
                    ELSE sigAttach

\* An attach process that was sent SIGTERM exits and leaves the process
\* table.
AttachExit(port) ==
    /\ port \in DOMAIN sigAttach
    /\ attach' = attach \ {port}
    /\ sigAttach' = [q \in (DOMAIN sigAttach) \ {port} |-> sigAttach[q]]
    /\ stopRet' = NoStop
    /\ UNCHANGED boot
    /\ UNCHANGED halted
    /\ UNCHANGED objVars
    /\ subRet' = NoSub
    /\ UNCHANGED shutVars
    /\ UNCHANGED hubVars
    /\ UNCHANGED <<registry, nextPort, processes, workers, occupied, calls,
                   sigWorker>>

\* Lines 307-318: SIGTERM through the tracked handle when there is one, else
\* by the entry's pid; a signal reaches only a process that is still alive
\* (kill() returns false / process.kill throws ESRCH, which is swallowed).
SignalWorker(p) ==
    LET target == IF Has(processes, p) THEN processes[p] ELSE registry[p].pid IN
    sigWorker' = IF Alive(target) THEN [sigWorker EXCEPT ![target] = @ + 1]
                 ELSE sigWorker

\* StopAbsent that reports success for a path it does not know.
StopAbsentReturnsTrue(p) ==
    /\ stopRet' = "true"
    /\ UNCHANGED boot
    /\ UNCHANGED halted
    /\ UNCHANGED objVars
    /\ UNCHANGED <<sigAttach, cleanups, sigKill>>
    /\ subRet' = NoSub
    /\ UNCHANGED hubVars
    /\ UNCHANGED <<registry, nextPort, processes, workers, occupied, calls,
                   attach, sigWorker>>

\* stopServer on a path without an entry (lines 299-300).
StopAbsent(p) ==
    /\ stopRet' = "false"
    /\ UNCHANGED boot
    /\ UNCHANGED halted
    /\ UNCHANGED objVars
    /\ UNCHANGED <<sigAttach, cleanups, sigKill>>
    /\ subRet' = NoSub
    /\ UNCHANGED hubVars
    /\ UNCHANGED <<registry, nextPort, processes, workers, occupied, calls,
                   attach, sigWorker>>

\* StopPresent without the try/catch around process.kill(entry.pid): when
\* the handle is lost and the pid is dead, ESRCH escapes and nothing is removed.
StopPresentUncaught(p) ==
    IF ~Has(processes, p) /\ ~Alive(registry[p].pid)
    THEN /\ KillAttachProcesses(registry[p].port)
         /\ stopRet' = "throw"
         /\ UNCHANGED boot
         /\ UNCHANGED halted
         /\ UNCHANGED objVars
         /\ UNCHANGED shutVars
         /\ subRet' = NoSub
         /\ UNCHANGED hubVars
         /\ UNCHANGED <<registry, nextPort, processes, workers, occupied,
                        calls, sigWorker>>
    ELSE /\ KillAttachProcesses(registry[p].port)
         /\ SignalWorker(p)
         /\ processes' = ProcDelete(processes, p)
         /\ registry' = RegistryRemove(RegistryUpdate(registry, p,
                                                      [status |-> "stopped"]), p)
         /\ stopRet' = "true"
         /\ UNCHANGED boot
         /\ halted' = halted \cup Halts({p})
         /\ UNCHANGED objVars
         /\ UNCHANGED shutVars
         /\ subRet' = NoSub
         /\ UNCHANGED hubVars
         /\ UNCHANGED <<nextPort, workers, occupied, calls>>

\* StopPresent that removes the entry and leaves the handle tracked.
StopPresentKeepsHandle(p) ==
    /\ KillAttachProcesses(registry[p].port)
    /\ SignalWorker(p)
    /\ processes' = processes
    /\ registry' = RegistryRemove(RegistryUpdate(registry, p,
                                                 [status |-> "stopped"]), p)
    /\ stopRet' = "true"
    /\ UNCHANGED boot
    /\ halted' = halted \cup Halts({p})
    /\ UNCHANGED objVars
    /\ UNCHANGED shutVars
    /\ subRet' = NoSub
    /\ UNCHANGED hubVars
    /\ UNCHANGED <<nextPort, workers, occupied, calls>>

\* stopServer on a path with an entry (lines 302-322).
StopPresent(p) ==
    /\ KillAttachProcesses(registry[p].port)
    /\ SignalWorker(p)
    /\ processes' = ProcDelete(processes, p)
    /\ registry' = RegistryRemove(RegistryUpdate(registry, p,
                                                 [status |-> "stopped"]), p)
    /\ stopRet' = "true"
    /\ UNCHANGED boot
    /\ halted' = halted \cup Halts({p})
    /\ UNCHANGED objVars
    /\ UNCHANGED shutVars
    /\ subRet' = NoSub
    /\ UNCHANGED hubVars
    /\ UNCHANGED <<nextPort, workers, occupied, calls>>

\* stopServer(projectPath): no await inside, so one step.
StopServer(p) ==
    IF Has(registry, p) THEN StopPresent(p) ELSE StopAbsent(p)

\* ------------------------------------------------- cleanup (index.ts 46-65)
\* stopAllServers calls stopServer for every key of the snapshot; stopServer
\* never suspends, so all of them have run when stopAllServers first awaits.
\* The four operators give the state they leave behind.
StopTarget(p) == IF Has(processes, p) THEN processes[p] ELSE registry[p].pid

AfterStopsProcesses ==
    [q \in (DOMAIN processes) \ (DOMAIN registry) |-> processes[q]]

AfterStopsSigWorker ==
    [w \in DOMAIN sigWorker |->
        sigWorker[w]
        + Cardinality({p \in DOMAIN registry : StopTarget(p) = w /\ Alive(w)})]

AfterStopsSigAttach ==
    LET hit == {registry[p].port : p \in DOMAIN registry} \cap attach IN
    [port \in (DOMAIN sigAttach) \cup hit |->
        (IF port \in DOMAIN sigAttach THEN sigAttach[port] ELSE 0)
        + Cardinality({p \in DOMAIN registry : registry[p].port = port})]

\* killAllAttachProcesses: SIGTERM to every attach process `ps aux` lists.
KillAllAttachProcesses(sig, listed) ==
    [port \in listed |-> (IF port \in DOMAIN sig THEN sig[port] ELSE 0) + 1]

\* The record of cleanup n once it has run.
CleanupRecord(pc, race) ==
    [pc |-> pc, race |-> race,
     second |-> \E m \in CleanupIds : cleanups[m].pc # "idle",
     pids |-> {registry[p].pid : p \in DOMAIN registry}]

\* cleanup() is invoked next in slot n.
CleanupNext(n) ==
    /\ cleanups[n].pc = "idle"
    /\ \A m \in CleanupIds : m < n => cleanups[m].pc # "idle"

\* CleanupGraceful whose try block falls into forceKillAll after it completed.
CleanupGracefulThenForced(n) ==
    /\ CleanupNext(n)
    /\ \E gone \in SUBSET (DOMAIN AfterStopsSigAttach) :
          /\ attach' = attach \ gone
          /\ sigAttach' = KillAllAttachProcesses(
                              KillAllAttachProcesses(AfterStopsSigAttach,
                                                     attach \ gone),
                              attach \ gone)
    /\ sigWorker' = AfterStopsSigWorker
    /\ sigKill' = sigKill \cup {AfterStopsProcesses[q] :
                                   q \in DOMAIN AfterStopsProcesses}
    /\ processes' = EmptyMap
    /\ registry' = EmptyMap
    /\ cleanups' = [cleanups EXCEPT ![n] = CleanupRecord("forced", "resolved")]
    /\ stopRet' = NoStop
    /\ UNCHANGED boot
    /\ halted' = halted \cup Halts(DOMAIN registry)
    /\ UNCHANGED objVars
    /\ subRet' = NoSub
    /\ UNCHANGED hubVars
    /\ UNCHANGED <<nextPort, workers, occupied, calls>>

\* cleanup(), lines 46-60: stopAllServers settles the race in the tick it was
\* called in (the 10 s timer cannot fire first), then killAllAttachProcesses
\* runs.  An attach process that stopServer signalled may or may not have
\* left the process table when `ps aux` runs again.
CleanupGraceful(n) ==
    /\ CleanupNext(n)
    /\ \E gone \in SUBSET (DOMAIN AfterStopsSigAttach) :
          /\ attach' = attach \ gone
          /\ sigAttach' = KillAllAttachProcesses(AfterStopsSigAttach,
                                                 attach \ gone)
    /\ sigWorker' = AfterStopsSigWorker
    /\ processes' = AfterStopsProcesses
    /\ registry' = EmptyMap
    /\ cleanups' = [cleanups EXCEPT ![n] = CleanupRecord("completed", "resolved")]
    /\ stopRet' = NoStop
    /\ UNCHANGED boot
    /\ halted' = halted \cup Halts(DOMAIN registry)
    /\ UNCHANGED objVars
    /\ subRet' = NoSub
    /\ UNCHANGED hubVars
    /\ UNCHANGED <<nextPort, workers, occupied, calls, sigKill>>

\* forceKillAll without the fallback loop over the registry pids.
ForceKillTrackedOnly(procs, reg) == {procs[q] : q \in DOMAIN procs}

\* forceKillAll, lines 500-533, on a process map procs and a registry reg:
\* the pids it calls process.kill(pid, "SIGKILL") on.
ForceKillPids(procs, reg) ==
    {procs[q] : q \in DOMAIN procs}
    \cup {reg[q].pid : q \in (DOMAIN reg) \ (DOMAIN procs)}

\* A worker that SIGKILL reaches is dead at once.
Killed(pids) ==
    [w \in DOMAIN workers |->
        IF w \in pids /\ Alive(w) THEN [workers[w] EXCEPT !.st = "dead"]
        ELSE workers[w]]

\* cleanup(), lines 46-55 and 61-64: the graceful path throws after
\* stopAllServers has run its stops; the catch block runs forceKillAll on
\* what the stops left.
CleanupForcedAfterStops(n) ==
    /\ CleanupNext(n)
    /\ \E gone \in SUBSET (DOMAIN AfterStopsSigAttach) :
          /\ attach' = attach \ gone
          /\ sigAttach' = KillAllAttachProcesses(AfterStopsSigAttach,
                                                 attach \ gone)
    /\ sigWorker' = AfterStopsSigWorker
    /\ sigKill' = sigKill \cup ForceKillPids(AfterStopsProcesses, EmptyMap)
    /\ workers' = Killed(ForceKillPids(AfterStopsProcesses, EmptyMap))
    /\ processes' = EmptyMap
    /\ registry' = EmptyMap
    /\ cleanups' = [cleanups EXCEPT ![n] = CleanupRecord("forced", "rejected")]
    /\ stopRet' = NoStop
    /\ UNCHANGED boot
    /\ halted' = halted \cup Halts(DOMAIN registry)
    /\ UNCHANGED objVars
    /\ subRet' = NoSub
    /\ UNCHANGED hubVars
    /\ UNCHANGED <<nextPort, occupied, calls>>

\* cleanup(), lines 46-55 and 61-64: the graceful path throws before
\* stopAllServers has stopped anything; the catch block runs forceKillAll,
\* which leaves the registry alone.
CleanupForcedBeforeStops(n) ==
    /\ CleanupNext(n)
    /\ sigAttach' = KillAllAttachProcesses(sigAttach, attach)
    /\ sigKill' = sigKill \cup ForceKillPids(processes, registry)
    /\ workers' = Killed(ForceKillPids(processes, registry))
    /\ processes' = EmptyMap
    /\ cleanups' = [cleanups EXCEPT ![n] = CleanupRecord("forced", "rejected")]
    /\ stopRet' = NoStop
    /\ UNCHANGED boot
    /\ UNCHANGED halted
    /\ UNCHANGED objVars
    /\ subRet' = NoSub
    /\ UNCHANGED hubVars
    /\ UNCHANGED <<registry, nextPort, occupied, calls, attach, sigWorker>>

\* ------------------------------------------- route continuations (api.ts)
\* POST /project/:path/prompt after startServer resolved: sendPromptAsync
\* throws unless the entry is running, else it awaits session.create.
PromptBegin(c) ==
    /\ calls[c].pc = "done"
    /\ calls[c].outcome = "ok"
    /\ LET p == calls[c].path IN
       IF Has(registry, p) /\ registry[p].status = "running"
       THEN calls' = [calls EXCEPT ![c].pc = "session"]
       ELSE calls' = [d \in CallIds |->
                        IF d = c THEN IdleCall
                        ELSE [calls[d] EXCEPT !.overlap = @ \ {c}]]
    /\ stopRet' = NoStop
    /\ UNCHANGED boot
    /\ halted' = IF calls'[c].pc = "idle" THEN halted \ {c} ELSE halted
    /\ UNCHANGED objVars
    /\ UNCHANGED <<sigAttach, cleanups, sigKill>>
    /\ subRet' = NoSub
    /\ UNCHANGED hubVars
    /\ UNCHANGED <<registry, nextPort, processes, workers, occupied,
                   attach, sigWorker>>

\* sendPromptAsync, line 429: the new session's id is stored in the entry.
PromptSession(c, sid) ==
    /\ calls[c].pc = "session"
    /\ registry' = RegistryUpdate(registry, calls[c].path, [sessionId |-> sid])
    /\ calls' = [d \in CallIds |->
                    IF d = c THEN IdleCall
                    ELSE [calls[d] EXCEPT !.overlap = @ \ {c}]]
    /\ stopRet' = NoStop
    /\ UNCHANGED boot
    /\ halted' = halted \ {c}
    /\ UNCHANGED objVars
    /\ UNCHANGED <<sigAttach, cleanups, sigKill>>
    /\ subRet' = NoSub
    /\ UNCHANGED hubVars
    /\ UNCHANGED <<nextPort, processes, workers, occupied,
                   attach, sigWorker>>

\* POST /project/:path/attach-tui-neovim after startServer resolved: an
\* attach process is started for the returned port and registry.setTUI runs.
AttachTUI(c) ==
    /\ calls[c].pc = "done"
    /\ calls[c].outcome = "ok"
    /\ attach' = attach \cup {calls[c].port}
    /\ registry' = RegistryUpdate(registry, calls[c].path,
                                  [hasTUI |-> TRUE, tmuxPane |-> "pane"])
    /\ calls' = [d \in CallIds |->
                    IF d = c THEN IdleCall
                    ELSE [calls[d] EXCEPT !.overlap = @ \ {c}]]
    /\ stopRet' = NoStop
    /\ UNCHANGED boot
    /\ halted' = halted \ {c}
    /\ UNCHANGED objVars
    /\ UNCHANGED <<sigAttach, cleanups, sigKill>>
    /\ subRet' = NoSub
    /\ UNCHANGED hubVars
    /\ UNCHANGED <<nextPort, processes, workers, occupied,
                   sigWorker>>

\* ------------------------------------------------------ event hub (events.ts)
\* pend: how many of the retry timers that were pending when the task was
\* started are still pending (the timers all wait 5000 ms, so they fire in
\* the order they were armed).
FreeStream == [path |-> "-", st |-> "free", aborted |-> FALSE, pend |-> 0]

\* An upstream event stream of path p is open: the SDK subscription of a
\* forwarding task resolved and its for-await loop has not been left.
OpenStreams(p) == {k \in StreamIds : streams[k].path = p /\ streams[k].st = "open"}

\* The event types startEventForwarding hands to broadcast, lines 87-92.
AllowList ==
    {"message.created", "message.updated", "message.completed",
     "part.updated", "permission.requested", "session.updated"}

\* The types of the events the upstream server sends: one of the allow-list,
\* one outside it, and an event that has no type field.
EventTypes == {"session.updated", "server.connected", Null}

\* No event has just been read.
NoEvent == [type |-> "none"]

FreeSlots == {k \in StreamIds : streams[k].st = "free"}

Running(p) == Has(registry, p) /\ registry[p].status = "running"

\* startEventForwarding(projectPath), lines 56-74: returns at once unless the
\* entry is running; else a new controller is stored and the task suspends
\* in client.event.subscribe().
\* StartTask that does not look at the registry entry.
StartTaskUnchecked(strs, p, pend) ==
    /\ FreeSlots # {}
    /\ LET k == CHOOSE x \in FreeSlots : \A y \in FreeSlots : x <= y IN
       /\ streams' = [strs EXCEPT
                         ![k] = [path |-> p, st |-> "subscribing",
                                 aborted |-> FALSE, pend |-> pend]]
       /\ activeStreams' = ProcSet(activeStreams, p, k)

\* It is called with the tasks as strs and with pend timers pending.
StartTask(strs, p, pend) ==
    IF ~Running(p)
    THEN streams' = strs /\ UNCHANGED activeStreams
    ELSE /\ FreeSlots # {}
         /\ LET k == CHOOSE x \in FreeSlots : \A y \in FreeSlots : x <= y IN
            /\ streams' = [strs EXCEPT
                              ![k] = [path |-> p, st |-> "subscribing",
                                      aborted |-> FALSE, pend |-> pend]]
            /\ activeStreams' = ProcSet(activeStreams, p, k)

StartEventForwarding(p) == StartTask(streams, p, retry[p])

\* Subscribe that starts a forwarding task whether or not one is tracked.
SubscribeAlwaysStarts(p, s) ==
    /\ s \notin connections[p]
    /\ IF ~Running(p)
       THEN /\ subRet' = "NoRunningServer"
            /\ UNCHANGED <<connections, activeStreams, streams>>
       ELSE /\ subRet' = "connected"
            /\ connections' = [connections EXCEPT ![p] = @ \cup {s}]
            /\ StartEventForwarding(p)
    /\ stopRet' = NoStop
    /\ UNCHANGED boot
    /\ UNCHANGED halted
    /\ written' = NoEvent
    /\ UNCHANGED objVars
    /\ UNCHANGED <<sigAttach, cleanups, sigKill>>
    /\ UNCHANGED <<registry, nextPort, processes, workers, occupied, calls,
                   attach, sigWorker, retry>>

\* Subscribe without the route's check of the entry: addConnection runs for
\* any path, and only startEventForwarding's own guard looks at the status.
SubscribeUnchecked(p, s) ==
    /\ s \notin connections[p]
    /\ subRet' = "connected"
    /\ connections' = [connections EXCEPT ![p] = @ \cup {s}]
    /\ IF ~Has(activeStreams, p)
       THEN StartEventForwarding(p)
       ELSE UNCHANGED <<activeStreams, streams>>
    /\ stopRet' = NoStop
    /\ UNCHANGED boot
    /\ UNCHANGED halted
    /\ written' = NoEvent
    /\ UNCHANGED objVars
    /\ UNCHANGED <<sigAttach, cleanups, sigKill>>
    /\ UNCHANGED <<registry, nextPort, processes, workers, occupied, calls,
                   attach, sigWorker, retry>>

\* GET /project/:path/events (api.ts 293-315) and addConnection lines 14-23:
\* 404 unless the entry is running; else the SSE response is set up, the sink
\* joins the path's set and forwarding starts unless a controller is tracked.
Subscribe(p, s) ==
    /\ s \notin connections[p]
    /\ IF ~Running(p)
       THEN /\ subRet' = "NoRunningServer"
            /\ UNCHANGED <<connections, activeStreams, streams>>
       ELSE /\ subRet' = "connected"
            /\ connections' = [connections EXCEPT ![p] = @ \cup {s}]
            /\ IF ~Has(activeStreams, p)
               THEN StartEventForwarding(p)
               ELSE UNCHANGED <<activeStreams, streams>>
    /\ stopRet' = NoStop
    /\ UNCHANGED boot
    /\ UNCHANGED halted
    /\ written' = NoEvent
    /\ UNCHANGED objVars
    /\ UNCHANGED <<sigAttach, cleanups, sigKill>>
    /\ UNCHANGED <<registry, nextPort, processes, workers, occupied, calls,
                   attach, sigWorker, retry>>

\* Unsubscribe that aborts the path's controller whichever sink closes.
UnsubscribeAbortsAlways(p, s) ==
    /\ s \in connections[p]
    /\ connections' = [connections EXCEPT ![p] = @ \ {s}]
    /\ IF Has(activeStreams, p)
       THEN /\ streams' = [streams EXCEPT ![activeStreams[p]].aborted = TRUE]
            /\ activeStreams' = ProcDelete(activeStreams, p)
       ELSE UNCHANGED <<activeStreams, streams>>
    /\ stopRet' = NoStop
    /\ UNCHANGED boot
    /\ UNCHANGED halted
    /\ written' = NoEvent
    /\ UNCHANGED objVars
    /\ UNCHANGED <<sigAttach, cleanups, sigKill>>
    /\ subRet' = "closed"
    /\ UNCHANGED <<registry, nextPort, processes, workers, occupied, calls,
                   attach, sigWorker, retry>>

\* res.on("close"), lines 25-36: the response of sink s has closed.
Unsubscribe(p, s) ==
    /\ s \in connections[p]
    /\ connections' = [connections EXCEPT ![p] = @ \ {s}]
    /\ IF connections[p] = {s} /\ Has(activeStreams, p)
       THEN /\ streams' = [streams EXCEPT ![activeStreams[p]].aborted = TRUE]
            /\ activeStreams' = ProcDelete(activeStreams, p)
       ELSE UNCHANGED <<activeStreams, streams>>
    /\ stopRet' = NoStop
    /\ UNCHANGED boot
    /\ UNCHANGED halted
    /\ written' = NoEvent
    /\ UNCHANGED objVars
    /\ UNCHANGED <<sigAttach, cleanups, sigKill>>
    /\ subRet' = "closed"
    /\ UNCHANGED <<registry, nextPort, processes, workers, occupied, calls,
                   attach, sigWorker, retry>>

\* client.event.subscribe() resolved: the for-await loop waits for an event.
StreamOpened(k) ==
    /\ streams[k].st = "subscribing"
    /\ streams' = [streams EXCEPT ![k].st = "open"]
    /\ stopRet' = NoStop
    /\ UNCHANGED boot
    /\ UNCHANGED halted
    /\ written' = NoEvent
    /\ UNCHANGED objVars
    /\ UNCHANGED <<sigAttach, cleanups, sigKill>>
    /\ subRet' = NoSub
    /\ UNCHANGED <<registry, nextPort, processes, workers, occupied, calls,
                   attach, sigWorker, connections, activeStreams, retry>>

\* The finally block, line 114: whatever controller the path has is dropped.
LeaveForwarding(k) ==
    /\ streams' = [streams EXCEPT ![k] = FreeStream]
    /\ activeStreams' = ProcDelete(activeStreams, streams[k].path)

\* StreamEvent that hands every event to broadcast, whatever its type.
StreamEventUnfiltered(k, type, failing) ==
    LET p == streams[k].path IN
    /\ streams[k].st = "open"
    /\ failing \subseteq connections[p]
    /\ streams[k].aborted => failing = {}
    /\ written' = [task |-> k, path |-> p, type |-> type,
                   aborted |-> streams[k].aborted, sinks |-> connections[p],
                   ok |-> IF streams[k].aborted THEN {}
                          ELSE connections[p] \ failing,
                   failed |-> failing]
    /\ IF streams[k].aborted \/ connections[p] = {}
       THEN LeaveForwarding(k)
       ELSE UNCHANGED <<activeStreams, streams>>
    /\ stopRet' = NoStop
    /\ UNCHANGED boot
    /\ UNCHANGED halted
    /\ UNCHANGED objVars
    /\ UNCHANGED <<sigAttach, cleanups, sigKill>>
    /\ subRet' = NoSub
    /\ UNCHANGED <<registry, nextPort, processes, workers, occupied, calls,
                   attach, sigWorker, connections, retry>>

\* StreamEvent whose broadcast lets the exception of a failing write out:
\* the loop ends in the catch block, which arms a retry.
StreamEventWriteThrows(k, type, failing) ==
    LET p == streams[k].path
        sent == ~streams[k].aborted /\ type \in AllowList
        threw == sent /\ failing # {}
    IN
    /\ streams[k].st = "open"
    /\ failing \subseteq connections[p]
    /\ ~sent => failing = {}
    /\ written' = [task |-> k, path |-> p, type |-> type,
                   aborted |-> streams[k].aborted, sinks |-> connections[p],
                   ok |-> IF sent /\ ~threw THEN connections[p] ELSE {},
                   failed |-> failing]
    /\ IF threw
       THEN /\ retry[p] < MaxRetries
            /\ retry' = [retry EXCEPT ![p] = @ + 1]
       ELSE UNCHANGED retry
    /\ IF threw \/ streams[k].aborted \/ connections[p] = {}
       THEN LeaveForwarding(k)
       ELSE UNCHANGED <<activeStreams, streams>>
    /\ stopRet' = NoStop
    /\ UNCHANGED boot
    /\ UNCHANGED halted
    /\ UNCHANGED objVars
    /\ UNCHANGED <<sigAttach, cleanups, sigKill>>
    /\ subRet' = NoSub
    /\ UNCHANGED <<registry, nextPort, processes, workers, occupied, calls,
                   attach, sigWorker, connections>>

\* Lines 76-102: an event of the given type is read.  The loop is left when
\* the controller was aborted; else an event of the allow-list goes to
\* broadcast (lines 39-54), which writes it to every sink of the path and
\* swallows the exception of a write that fails (the sinks in `failing`);
\* then the loop is left when the path has no connection any more.
StreamEvent(k, type, failing) ==
    LET p == streams[k].path
        sent == ~streams[k].aborted /\ type \in AllowList
    IN
    /\ streams[k].st = "open"
    /\ failing \subseteq connections[p]
    /\ ~sent => failing = {}
    /\ written' = [task |-> k, path |-> p, type |-> type,
                   aborted |-> streams[k].aborted, sinks |-> connections[p],
                   ok |-> IF sent THEN connections[p] \ failing ELSE {},
                   failed |-> failing]
    /\ IF streams[k].aborted \/ connections[p] = {}
       THEN LeaveForwarding(k)
       ELSE UNCHANGED <<activeStreams, streams>>
    /\ stopRet' = NoStop
    /\ UNCHANGED boot
    /\ UNCHANGED halted
    /\ UNCHANGED objVars
    /\ UNCHANGED <<sigAttach, cleanups, sigKill>>
    /\ subRet' = NoSub
    /\ UNCHANGED <<registry, nextPort, processes, workers, occupied, calls,
                   attach, sigWorker, connections, retry>>

\* The upstream stream ends without an error: the loop ends, only finally runs.
StreamEnd(k) ==
    /\ streams[k].st = "open"
    /\ LeaveForwarding(k)
    /\ stopRet' = NoStop
    /\ UNCHANGED boot
    /\ UNCHANGED halted
    /\ written' = NoEvent
    /\ UNCHANGED objVars
    /\ UNCHANGED <<sigAttach, cleanups, sigKill>>
    /\ subRet' = NoSub
    /\ UNCHANGED <<registry, nextPort, processes, workers, occupied, calls,
                   attach, sigWorker, connections, retry>>

\* Lines 103-115: subscribe() or a read throws.  Unless the controller was
\* aborted a retry timer is armed; then finally runs.
StreamError(k) ==
    /\ streams[k].st \in {"subscribing", "open"}
    /\ IF streams[k].aborted
       THEN UNCHANGED retry
       ELSE /\ retry[streams[k].path] < MaxRetries
            /\ retry' = [retry EXCEPT ![streams[k].path] = @ + 1]
    /\ LeaveForwarding(k)
    /\ stopRet' = NoStop
    /\ UNCHANGED boot
    /\ UNCHANGED halted
    /\ written' = NoEvent
    /\ UNCHANGED objVars
    /\ UNCHANGED <<sigAttach, cleanups, sigKill>>
    /\ subRet' = NoSub
    /\ UNCHANGED <<registry, nextPort, processes, workers, occupied, calls,
                   attach, sigWorker, connections>>

\* The setTimeout callback, lines 107-111.
RetryFire(p) ==
    /\ retry[p] > 0
    /\ retry' = [retry EXCEPT ![p] = @ - 1]
    /\ LET fired == [k \in StreamIds |->
                        IF streams[k].path = p /\ streams[k].pend > 0
                        THEN [streams[k] EXCEPT !.pend = @ - 1]
                        ELSE streams[k]]
       IN IF connections[p] # {} /\ ~Has(activeStreams, p)
          THEN StartTask(fired, p, retry[p] - 1)
          ELSE streams' = fired /\ UNCHANGED activeStreams
    /\ stopRet' = NoStop
    /\ UNCHANGED boot
    /\ UNCHANGED halted
    /\ written' = NoEvent
    /\ UNCHANGED objVars
    /\ UNCHANGED <<sigAttach, cleanups, sigKill>>
    /\ subRet' = NoSub
    /\ UNCHANGED <<registry, nextPort, processes, workers, occupied, calls,
                   attach, sigWorker, connections>>

\* ------------------------------------------------------------------ start
\* scanExistingOpenCodePorts: the --port values of live `opencode serve`
\* processes that lie in [4000, 5000].
ScanExistingOpenCodePorts(live) == {n \in live : n >= ScanLow /\ n <= ScanHigh}

SetMax(S) == CHOOSE m \in S : \A n \in S : n <= m

\* InitializePortAllocation that puts the cursor on the highest port found
\* instead of one past it.
InitializePortAllocationOnHighest(live) ==
    LET existing == ScanExistingOpenCodePorts(live) IN
    IF existing # {}
    THEN IF SetMax(existing) > BasePort THEN SetMax(existing) ELSE BasePort
    ELSE BasePort

\* ProjectRegistry.initializePortAllocation: the cursor after the scan.
InitializePortAllocation(live) ==
    LET existing == ScanExistingOpenCodePorts(live) IN
    IF existing # {}
    THEN IF SetMax(existing) + 1 > BasePort THEN SetMax(existing) + 1 ELSE BasePort
    ELSE BasePort

\* boot once index.ts has run to app.listen.
Booted == [seeded |-> TRUE, listening |-> TRUE]

\* The ports `ps aux` shows behind `opencode serve --port`: the workers of an
\* earlier run that are alive.
LivePorts == {workers[w].port : w \in {v \in DOMAIN workers : Alive(v)}}

\* index.ts line 38, `await registry.initializePortAllocation()`.
Recover ==
    /\ ~boot.seeded
    /\ nextPort' = InitializePortAllocation(LivePorts)
    /\ boot' = [boot EXCEPT !.seeded = TRUE]
    /\ UNCHANGED halted
    /\ stopRet' = NoStop
    /\ subRet' = NoSub
    /\ UNCHANGED objVars
    /\ UNCHANGED <<sigAttach, cleanups, sigKill>>
    /\ UNCHANGED hubVars
    /\ UNCHANGED <<registry, processes, workers, occupied, calls, attach,
                   sigWorker>>

\* Listen that does not wait for initializePortAllocation.
ListenUnseeded ==
    /\ ~boot.listening
    /\ boot' = [boot EXCEPT !.listening = TRUE]
    /\ UNCHANGED halted
    /\ stopRet' = NoStop
    /\ subRet' = NoSub
    /\ UNCHANGED objVars
    /\ UNCHANGED <<sigAttach, cleanups, sigKill>>
    /\ UNCHANGED hubVars
    /\ UNCHANGED <<registry, nextPort, processes, workers, occupied, calls,
                   attach, sigWorker>>

\* index.ts lines 41-43, app.listen: the statement after the top-level await.
Listen ==
    /\ boot.seeded
    /\ ~boot.listening
    /\ boot' = [boot EXCEPT !.listening = TRUE]
    /\ UNCHANGED halted
    /\ stopRet' = NoStop
    /\ subRet' = NoSub
    /\ UNCHANGED objVars
    /\ UNCHANGED <<sigAttach, cleanups, sigKill>>
    /\ UNCHANGED hubVars
    /\ UNCHANGED <<registry, nextPort, processes, workers, occupied, calls,
                   attach, sigWorker>>

\* Workers that survived an earlier manager, and ports held by other programs.
OrphanSets == {{}}
ForeignSets == {{BasePort}}

\* The state after construction and initializePortAllocation, with nCalls
\* call slots and nWorkers child processes to spawn.
InitWith(nCalls, nWorkers) ==
    /\ registry = EmptyMap
    /\ processes = EmptyMap
    /\ workers = [w \in 1 .. nWorkers |-> NoWorker]
    /\ sigWorker = [w \in 1 .. nWorkers |-> 0]
    /\ calls = [c \in 1 .. nCalls |-> IdleCall]
    /\ stopRet = NoStop
    /\ subRet = NoSub
    /\ attach = {}
    /\ sigAttach = EmptyMap
    /\ cleanups = [x \in CleanupIds |-> IdleCleanup]
    /\ sigKill = {}
    /\ InitObjects
    /\ boot = Booted
    /\ halted = {}
    /\ \E orphans \in OrphanSets, foreign \in ForeignSets :
          /\ occupied = orphans \cup foreign
          /\ nextPort = InitializePortAllocation(orphans)
    /\ connections = [p \in Paths |-> {}]
    /\ activeStreams = EmptyMap
    /\ streams = [k \in StreamIds |-> FreeStream]
    /\ retry = [p \in Paths |-> 0]
    /\ written = NoEvent

Init == InitWith(MaxCalls, MaxWorkers)

Next ==
    \/ \E c \in CallIds, p \in Paths : EnsureStart(c, p)
    \/ \E c \in CallIds : EnsureHealthResult(c)
    \/ \E c \in CallIds : EnsureProbeNext(c)
    \/ \E c \in CallIds : EnsureSpawn(c)
    \/ \E c \in CallIds : EnsureSpawnFail(c)
    \/ \E c \in CallIds : EnsureReady(c)
    \/ \E c \in CallIds : EnsureTimeout(c)
    \/ \E c \in CallIds : EnsureReturn(c)
    \/ \E c \in CallIds : PromptBegin(c)
    \/ \E c \in CallIds, sid \in SessionIds : PromptSession(c, sid)
    \/ \E c \in CallIds : AttachTUI(c)
    \/ \E w \in Pids : WorkerListen(w)
    \/ \E w \in Pids : WorkerDie(w)
    \/ \E w \in Pids : OnExit(w)
    \/ \E p \in Paths : StopServer(p)
    \/ \E port \in attach : AttachExit(port)

Spec == Init /\ [][Next]_vars

\* The ensure and attach routes, stopServer and the workers, without the
\* prompt route (which writes the session id alone).
NextServers ==
    \/ \E c \in CallIds, p \in Paths : EnsureStart(c, p)
    \/ \E c \in CallIds : EnsureHealthResult(c)
    \/ \E c \in CallIds : EnsureProbeNext(c)
    \/ \E c \in CallIds : EnsureSpawn(c)
    \/ \E c \in CallIds : EnsureSpawnFail(c)
    \/ \E c \in CallIds : EnsureReady(c)
    \/ \E c \in CallIds : EnsureTimeout(c)
    \/ \E c \in CallIds : EnsureReturn(c)
    \/ \E c \in CallIds : AttachTUI(c)
    \/ \E w \in Pids : WorkerListen(w)
    \/ \E w \in Pids : WorkerDie(w)
    \/ \E w \in Pids : OnExit(w)
    \/ \E p \in Paths : StopServer(p)
    \/ \E port \in attach : AttachExit(port)

SpecServers == Init /\ [][NextServers]_vars

\* The same program with one more caller and one more child process, so
\* that two startServer calls overlap and two workers exist side by side.
InitConcurrent == InitWith(MaxCalls + 1, MaxWorkers + 1)

SpecConcurrent == InitConcurrent /\ [][Next]_vars

\* The manager restarted while `opencode serve --port N` processes of an
\* earlier run (or started by hand) are alive: nobody, one below the base,
\* one or two in the range, one on the ceiling, one above the ports the scan
\* accepts.
LiveSets ==
    {{}, {BasePort - 47}, {BasePort + 3}, {BasePort + 1, BasePort + 3},
     {MaxPort}, {ScanHigh + 1}}

\* The ports other programs hold at a restart.
ForeignRestart == {{}, {BasePort}}

\* The ports of a set in increasing order.
Ascending(S) ==
    CHOOSE f \in [1 .. Cardinality(S) -> S] :
        \A i, j \in 1 .. Cardinality(S) : i < j => f[i] < f[j]

\* The live workers of an earlier run are processes this manager has no
\* handle, entry or exit observer for: they hold the first pids, path "-".
Orphans == {w \in DOMAIN workers : workers[w].path = "-" /\ workers[w].st # "none"}

InitRestartAt(booted) ==
    /\ registry = EmptyMap
    /\ processes = EmptyMap
    /\ \E live \in LiveSets, foreign \in ForeignRestart :
          /\ workers = [w \in 1 .. (Cardinality(live) + MaxWorkers) |->
                          IF w <= Cardinality(live)
                          THEN [path |-> "-", port |-> Ascending(live)[w],
                                st |-> "healthy"]
                          ELSE NoWorker]
          /\ sigWorker = [w \in 1 .. (Cardinality(live) + MaxWorkers) |-> 0]
          /\ occupied = foreign
          /\ nextPort = IF booted THEN InitializePortAllocation(live)
                        ELSE BasePort
    /\ calls = [c \in 1 .. MaxCalls |-> IdleCall]
    /\ stopRet = NoStop
    /\ subRet = NoSub
    /\ attach = {}
    /\ sigAttach = EmptyMap
    /\ cleanups = [x \in CleanupIds |-> IdleCleanup]
    /\ sigKill = {}
    /\ InitObjects
    /\ boot = [seeded |-> booted, listening |-> booted]
    /\ halted = {}
    /\ connections = [p \in Paths |-> {}]
    /\ activeStreams = EmptyMap
    /\ streams = [k \in StreamIds |-> FreeStream]
    /\ retry = [p \in Paths |-> 0]
    /\ written = NoEvent

\* The manager is up: the scan has seeded the cursor, requests are served.
InitRestart == InitRestartAt(TRUE)

\* The manager process has just been started: index.ts has mounted the
\* routes and is about to await initializePortAllocation.
InitBoot == InitRestartAt(FALSE)

\* startServer and the life of the workers it spawns.
NextAllocate ==
    \/ \E c \in CallIds, p \in Paths : EnsureStart(c, p)
    \/ \E c \in CallIds : EnsureHealthResult(c)
    \/ \E c \in CallIds : EnsureProbeNext(c)
    \/ \E c \in CallIds : EnsureSpawn(c)
    \/ \E c \in CallIds : EnsureSpawnFail(c)
    \/ \E c \in CallIds : EnsureReady(c)
    \/ \E c \in CallIds : EnsureTimeout(c)
    \/ \E c \in CallIds : EnsureReturn(c)
    \/ \E w \in Pids : WorkerListen(w)
    \/ \E w \in Pids : WorkerDie(w)
    \/ \E w \in Pids \ Orphans : OnExit(w)

SpecRestart == InitRestart /\ [][NextAllocate]_vars

\* The ensure and prompt routes and the workers.
NextPrompt ==
    \/ NextAllocate
    \/ \E c \in CallIds : PromptBegin(c)
    \/ \E c \in CallIds, sid \in SessionIds : PromptSession(c, sid)

SpecPrompt == Init /\ [][NextPrompt]_vars

\* Start-up, then startServer and the life of the workers.
NextBoot ==
    \/ Recover
    \/ Listen
    \/ NextAllocate

SpecBoot == InitBoot /\ [][NextBoot]_vars

\* Overlapping startServer calls while the other programs on the machine
\* release the ports they hold.
NextCursor ==
    \/ NextAllocate
    \/ \E port \in occupied : ForeignExit(port)

SpecCursor == InitConcurrent /\ [][NextCursor]_vars

\* The manager when a termination signal arrives: every path has been
\* ensured, and some of them have a TUI attached (attach-tui resolved).
InitShutdown ==
    /\ occupied = {BasePort}
    /\ nextPort = BasePort + 1 + Len(PathSeq)
    /\ workers = [i \in DOMAIN PathSeq |->
                    [path |-> PathSeq[i], port |-> BasePort + i,
                     st |-> "healthy"]]
    /\ \E tui \in SUBSET (DOMAIN PathSeq) :
          /\ registry = [p \in Paths |->
                LET i == CHOOSE m \in DOMAIN PathSeq : PathSeq[m] = p IN
                IF i \in tui
                THEN [NewEntry(BasePort + i, i) EXCEPT
                         !.status = "running", !.hasTUI = TRUE,
                         !.tmuxPane = "pane"]
                ELSE [NewEntry(BasePort + i, i) EXCEPT !.status = "running"]]
          /\ attach = {BasePort + i : i \in tui}
    /\ processes = [p \in Paths |->
                      CHOOSE m \in DOMAIN PathSeq : PathSeq[m] = p]
    /\ sigWorker = [i \in DOMAIN PathSeq |-> 0]
    /\ calls = [c \in 1 .. MaxCalls |-> IdleCall]
    /\ stopRet = NoStop
    /\ subRet = NoSub
    /\ sigAttach = EmptyMap
    /\ cleanups = [x \in CleanupIds |-> IdleCleanup]
    /\ sigKill = {}
    /\ InitObjects
    /\ boot = Booted
    /\ halted = {}
    /\ connections = [p \in Paths |-> {}]
    /\ activeStreams = EmptyMap
    /\ streams = [k \in StreamIds |-> FreeStream]
    /\ retry = [p \in Paths |-> 0]
    /\ written = NoEvent

NextShutdown ==
    \/ \E n \in CleanupIds : CleanupGraceful(n)
    \/ \E n \in CleanupIds : CleanupForcedAfterStops(n)
    \/ \E n \in CleanupIds : CleanupForcedBeforeStops(n)
    \/ \E port \in attach : AttachExit(port)
    \/ \E w \in Pids : WorkerDie(w)
    \/ \E w \in Pids : OnExit(w)
    \/ \E p \in Paths : StopServer(p)

SpecShutdown == InitShutdown /\ [][NextShutdown]_vars

\* The registry object under any sequence of its operations.
NextRegistry ==
    \/ \E p \in Paths : RegAdd(p, AddEntry(p))
    \/ \E p \in Paths, updates \in Updates : RegUpdate(p, updates)
    \/ \E p \in Paths : RegRemove(p)
    \/ \E p \in Paths : RegSetTUI(p, "pane")
    \/ \E p \in Paths : RegClearTUI(p)
    \/ RegGetAll
    \/ Tick

SpecRegistry == Init /\ [][NextRegistry]_vars

\* The event hub, started in the state the supervisor is in after ensure(p)
\* resolved for every path (EnsureStart .. EnsureReady, one path after the
\* other): from there workers die or are stopped while sinks come and go.
InitHubWith(n) ==
    /\ occupied = {BasePort}
    /\ nextPort = BasePort + 1 + n
    /\ workers = [i \in 1 .. n |->
                    [path |-> PathSeq[i], port |-> BasePort + i,
                     st |-> "healthy"]]
    /\ registry = [p \in {PathSeq[i] : i \in 1 .. n} |->
          LET i == CHOOSE m \in 1 .. n : PathSeq[m] = p IN
          [NewEntry(BasePort + i, i) EXCEPT !.status = "running"]]
    /\ processes = [p \in {PathSeq[i] : i \in 1 .. n} |->
                      CHOOSE m \in 1 .. n : PathSeq[m] = p]
    /\ sigWorker = [i \in 1 .. n |-> 0]
    /\ calls = [c \in 1 .. MaxCalls |-> IdleCall]
    /\ stopRet = NoStop
    /\ subRet = NoSub
    /\ attach = {}
    /\ sigAttach = EmptyMap
    /\ cleanups = [x \in CleanupIds |-> IdleCleanup]
    /\ sigKill = {}
    /\ InitObjects
    /\ boot = Booted
    /\ halted = {}
    /\ connections = [p \in Paths |-> {}]
    /\ activeStreams = EmptyMap
    /\ streams = [k \in StreamIds |-> FreeStream]
    /\ retry = [p \in Paths |-> 0]
    /\ written = NoEvent

NextHub ==
    \/ \E p \in Paths, s \in Sinks : Subscribe(p, s)
    \/ \E p \in Paths, s \in Sinks : Unsubscribe(p, s)
    \/ \E k \in StreamIds : StreamOpened(k)
    \/ \E k \in StreamIds, type \in EventTypes, failing \in SUBSET Sinks :
          StreamEvent(k, type, failing)
    \/ \E k \in StreamIds : StreamEnd(k)
    \/ \E k \in StreamIds : StreamError(k)
    \/ \E p \in Paths : RetryFire(p)
    \/ \E w \in Pids : WorkerDie(w)
    \/ \E w \in Pids : OnExit(w)
    \/ \E p \in Paths : StopServer(p)

InitHub == InitHubWith(Len(PathSeq))

\* The hub alone, with every path running and its worker staying up: sinks
\* come and go, streams open, deliver events of the allow-list to sinks
\* whose writes succeed, end, fail and are retried.
NextForwarding ==
    \/ \E p \in Paths, s \in Sinks : Subscribe(p, s)
    \/ \E p \in Paths, s \in Sinks : Unsubscribe(p, s)
    \/ \E k \in StreamIds : StreamOpened(k)
    \/ \E k \in StreamIds : StreamEvent(k, "session.updated", {})
    \/ \E k \in StreamIds : StreamEnd(k)
    \/ \E k \in StreamIds : StreamError(k)
    \/ \E p \in Paths : RetryFire(p)

SpecForwarding == InitHub /\ [][NextForwarding]_vars

SpecHub == InitHub /\ [][NextHub]_vars

\* The hub when only the first path has been ensured: the other paths have
\* no entry, so every subscribe to them is refused.
InitHubOne == InitHubWith(1)

SpecHubOne == InitHubOne /\ [][NextHub]_vars

\* What the event loop guarantees of the hub: an armed retry timer fires, and
\* a subscribe() that is attempted again and again eventually resolves.
\* Sinks, workers and the upstream server are under no obligation.
HubFairness ==
    /\ \A p \in Paths : WF_vars(RetryFire(p))
    /\ \A k \in StreamIds : SF_vars(StreamOpened(k))

SpecHubFair == InitHubOne /\ [][NextHub]_vars /\ HubFairness

\* =============================================================== properties

Serving(p) == Has(registry, p) /\ registry[p].status \in {"starting", "running"}

\* C1: two ensure(p) calls that were in flight at the same time and both
\* resolved (no spawn of theirs having failed) have spawned at most one worker
\* between them and resolved to the same port.
C1_ConcurrentEnsureSpawnsOnce ==
    \A c, d \in CallIds :
        (/\ c # d
         /\ calls[c].pc = "done" /\ calls[d].pc = "done"
         /\ calls[c].outcome = "ok" /\ calls[d].outcome = "ok"
         /\ calls[c].how # "nopid" /\ calls[d].how # "nopid"
         /\ calls[c].path = calls[d].path
         /\ d \in calls[c].overlap)
        => /\ ~(calls[c].how = "spawned" /\ calls[d].how = "spawned")
           /\ calls[c].port = calls[d].port

\* C2: no two registry entries whose status is starting or running hold the
\* same port.
C2_ServingPortsDistinct ==
    \A p, q \in Paths :
        (p # q /\ Serving(p) /\ Serving(q)) => registry[p].port # registry[q].port

\* C3: at most one upstream event stream is open per project path.
C3_OneUpstreamPerPath ==
    \A p \in Paths : Cardinality(OpenStreams(p)) <= 1

\* C4: an ensure(p) call made while p has an entry, whatever its status, whose
\* worker answers the health probe goes on to return the existing port: it
\* does not start allocating a port (and so spawns nothing).
C4_IdempotentWhateverStatus ==
    [][\A c \in CallIds :
          (/\ calls[c].pc = "idle"
           /\ calls'[c].pc # "idle"
           /\ Has(registry, calls'[c].path)
           /\ IsServerHealthy(registry[calls'[c].path].port))
          => calls'[c].pc = "health"]_vars

\* The step in which call c leaves waitForServer because the deadline passed
\* with the port still unhealthy.
TimedOut(c) ==
    /\ calls[c].pc = "wait"
    /\ calls'[c].pc = "done"
    /\ ~IsServerHealthy(calls[c].port)

\* C5 as claimed: when the health wait times out the call rejects with
\* HealthTimeout and, as the call ends, the entry of p has status error.
C5_TimeoutLeavesErrorEntry ==
    [][\A c \in CallIds :
          TimedOut(c)
          => /\ calls'[c].outcome = "HealthTimeout"
             /\ Has(registry', calls[c].path)
             /\ registry'[calls[c].path].status = "error"]_vars

\* C5 as amended: when the health wait times out the call rejects with
\* HealthTimeout and, as the call ends, p has either no entry (a stop(p) ran
\* during the wait) or an entry with status error.
C5_TimeoutRejects ==
    [][\A c \in CallIds :
          TimedOut(c)
          => /\ calls'[c].outcome = "HealthTimeout"
             /\ (Has(registry', calls[c].path)
                   => registry'[calls[c].path].status = "error")]_vars

\* A call rejected with HealthTimeout while the entry of its path, still that
\* of the worker the call spawned, shows error.
C5_Witness ==
    \E c \in CallIds :
        /\ calls[c].pc = "done"
        /\ calls[c].outcome = "HealthTimeout"
        /\ Has(registry, calls[c].path)
        /\ registry[calls[c].path].status = "error"
        /\ registry[calls[c].path].port = calls[c].port

\* C6: when spawn yields no pid the call fails with SpawnFailure and p has an
\* entry with status error.
C6_SpawnFailureRejects ==
    [][\A c \in CallIds :
          (calls[c].pc = "probe" /\ calls'[c].how = "nopid")
          => /\ calls'[c].outcome = "SpawnFailure"
             /\ Has(registry', calls[c].path)
             /\ registry'[calls[c].path].status = "error"]_vars

\* C7: stop(p) on a path without an entry returns false, signals no worker
\* and no attach process, and leaves the registry and the tracked-process
\* set as they were.
C7_StopUnknownIsNoOp ==
    [][\A p \in Paths :
          (StopServer(p) /\ ~Has(registry, p))
          => /\ stopRet' = "false"
             /\ UNCHANGED <<registry, processes, sigWorker, attach,
                            sigAttach>>]_vars

\* stop returned false for one path while another path has a live worker, a
\* tracked handle and an attach process that a stray signal could have hit.
C7_Witness ==
    /\ stopRet = "false"
    /\ attach # {}
    /\ \E q \in Paths : Has(processes, q) /\ Alive(processes[q])

\* C8: stop(p) on a path with an entry returns true and leaves neither an
\* entry nor a tracked handle for p, whether or not a signal was delivered.
C8_StopKnownAlwaysRemoves ==
    [][\A p \in Paths :
          (StopServer(p) /\ Has(registry, p))
          => /\ stopRet' = "true"
             /\ ~Has(registry', p)
             /\ ~Has(processes', p)]_vars

\* stop returned true although no worker ever received a signal: the worker
\* of the stopped path was already gone.
C8_Witness ==
    /\ stopRet = "true"
    /\ Pids # {}
    /\ \A w \in Pids : sigWorker[w] = 0 /\ workers[w].st # "failed"
    /\ \A p \in Paths : ~Has(registry, p)

\* C9: when the exit of worker w is observed, the tracked-process set holds
\* no handle of w afterwards and an entry of w's path, if there is one, has
\* status stopped and no session id.
C9_ExitRecordsStopped ==
    [][\A w \in Pids :
          (workers[w].st = "dead" /\ workers'[w].st = "exited")
          => /\ ~(Has(processes', workers[w].path)
                    /\ processes'[workers[w].path] = w)
             /\ (Has(registry, workers[w].path)
                   => /\ Has(registry', workers[w].path)
                      /\ registry'[workers[w].path].status = "stopped"
                      /\ registry'[workers[w].path].sessionId = Null)]_vars

\* A worker exited while the ensure call that spawned it was still waiting
\* for it to become healthy; its entry shows stopped and its handle is gone.
C9_Witness ==
    \E w \in Pids, c \in CallIds :
        /\ workers[w].st = "exited"
        /\ calls[c].pc = "wait"
        /\ calls[c].path = workers[w].path
        /\ calls[c].port = workers[w].port
        /\ Has(registry, workers[w].path)
        /\ registry[workers[w].path].pid = w
        /\ registry[workers[w].path].status = "stopped"
        /\ registry[workers[w].path].sessionId = Null
        /\ ~Has(processes, workers[w].path)

\* C10: in the state right after the last subscriber of p unsubscribed no
\* upstream stream of p is open.
C10_LastUnsubscribeClosesUpstream ==
    [][\A p \in Paths :
          (connections[p] # {} /\ connections'[p] = {})
          => OpenStreams(p)' = {}]_vars

\* C11: a subscribe(p, sink) accepted while p is running starts an upstream
\* stream for p (a new forwarding task, tracked for p) when none is tracked
\* for p, and otherwise leaves the tracked one and every task as they are.
C11_FirstSubscriberOpensUpstream ==
    [][\A p \in Paths, s \in Sinks :
          (Subscribe(p, s) /\ Running(p))
          => IF Has(activeStreams, p)
             THEN UNCHANGED <<activeStreams, streams>>
             ELSE /\ Has(activeStreams', p)
                  /\ streams[activeStreams'[p]].st = "free"
                  /\ streams'[activeStreams'[p]] =
                        [path |-> p, st |-> "subscribing", aborted |-> FALSE,
                         pend |-> retry[p]]
                  /\ \A k \in StreamIds :
                        k # activeStreams'[p] => streams'[k] = streams[k]
                  /\ \A q \in Paths \ {p} :
                        /\ Has(activeStreams', q) = Has(activeStreams, q)
                        /\ Has(activeStreams, q)
                              => activeStreams'[q] = activeStreams[q]]_vars

\* A second sink has just joined a path whose one upstream stream, opened for
\* the first sink, is tracked and was reused.
C11_Witness ==
    \E p \in Paths :
        /\ subRet = "connected"
        /\ connections[p] = Sinks
        /\ Has(activeStreams, p)
        /\ {k \in StreamIds : streams[k].path = p} = {activeStreams[p]}
        /\ streams[activeStreams[p]].st = "open"

\* C12: subscribe(p, sink) while p has no entry or its entry is not running
\* is answered NoRunningServer, adds the sink to no subscriber set and starts
\* no upstream stream.
C12_SubscribeNeedsRunning ==
    [][\A p \in Paths, s \in Sinks :
          (Subscribe(p, s) /\ ~Running(p))
          => /\ subRet' = "NoRunningServer"
             /\ UNCHANGED <<connections, activeStreams, streams>>]_vars

\* A subscribe was refused while one path has no entry and every other path
\* has an entry that is not running.
C12_Witness ==
    /\ subRet = "NoRunningServer"
    /\ \A p \in Paths : ~Running(p)
    /\ \E p \in Paths : ~Has(registry, p)
    /\ \E p \in Paths : Has(registry, p) /\ registry[p].status = "stopped"

\* Path p has subscribers and a running entry but no forwarding task that
\* still serves it: its upstream stream failed or ended.
Starved(p) ==
    /\ connections[p] # {}
    /\ Running(p)
    /\ \A k \in StreamIds : streams[k].path = p => streams[k].aborted

\* C13: whenever the upstream stream of p has failed or ended while p has
\* subscribers and a running entry, an upstream stream of p is eventually
\* open again (unless the subscribers leave or the entry stops running first).
C13_UpstreamReopens ==
    \A p \in Paths :
        Starved(p) ~> (OpenStreams(p) # {} \/ connections[p] = {} \/ ~Running(p))

\* C14: allocate() starts probing at the cursor, moves on by one port only
\* after a probe found the port taken, and returns the first port whose probe
\* found it free, leaving the cursor one past it; with the base port 4097
\* held by another program the first allocation returns 4098.
C14_AllocateLowestFree ==
    /\ [](workers[1].st # "none" => workers[1].port = BasePort + 1)
    /\ [][\A c \in CallIds :
             /\ (calls[c].pc # "probe" /\ calls'[c].pc = "probe")
                   => /\ calls'[c].port = nextPort
                      /\ calls'[c].free = IsPortAvailable(nextPort)
             /\ (calls[c].pc = "probe" /\ calls'[c].pc = "probe"
                   /\ calls'[c].port # calls[c].port)
                   => /\ ~calls[c].free
                      /\ calls'[c].port = calls[c].port + 1
                      /\ calls'[c].free = IsPortAvailable(calls[c].port + 1)
             /\ (calls[c].pc = "probe" /\ calls'[c].pc # "probe"
                   /\ calls'[c].outcome # "PortExhausted")
                   => /\ calls[c].free
                      /\ calls'[c].port = calls[c].port
                      /\ nextPort' = calls[c].port + 1]_vars

\* The first allocation has returned 4098, the base port being held by
\* another program, and the cursor stands at 4099.
C14_Witness ==
    /\ BasePort \in occupied
    /\ workers[1] = [path |-> PathSeq[1], port |-> BasePort + 1, st |-> "up"]
    /\ nextPort = BasePort + 2
    /\ \E c \in CallIds : calls[c].pc = "wait" /\ calls[c].port = BasePort + 1

\* C15: allocate() fails with PortExhausted only when no port of the range
\* [4097, 4196] is free, and every port it returns lies in that range.
C15_ExhaustedOnlyWhenRangeFull ==
    [][\A c \in CallIds :
          /\ (calls[c].outcome # "PortExhausted"
                /\ calls'[c].outcome = "PortExhausted")
                => \A port \in BasePort .. MaxPort : ~IsPortAvailable(port)
          /\ (calls[c].pc = "probe" /\ calls'[c].pc # "probe"
                /\ calls'[c].outcome # "PortExhausted")
                => calls'[c].port \in BasePort .. MaxPort]_vars

\* The ports the scan of the process list found at the restart.
FoundPorts ==
    {n \in {workers[w].port : w \in Orphans} : n >= ScanLow /\ n <= ScanHigh}

\* C16: until the first allocation the cursor is the larger of the base and
\* one past the highest port of a live worker found (the base when none is
\* found); no worker spawned afterwards gets a port at or below a found one,
\* and with a live worker on 4100 the first allocation returns 4101.
C16_RecoveredCursor ==
    /\ Pids = Orphans
          => nextPort = IF FoundPorts = {} THEN BasePort
                        ELSE IF SetMax(FoundPorts) + 1 > BasePort
                             THEN SetMax(FoundPorts) + 1
                             ELSE BasePort
    /\ \A w \in Pids \ Orphans, n \in FoundPorts : workers[w].port > n
    /\ (FoundPorts = {BasePort + 3} /\ Orphans = {1} /\ workers[2].st # "none")
          => workers[2].port = BasePort + 4

\* After a restart that found a live worker on 4100 the first worker spawned
\* got port 4101.
C16_Witness ==
    /\ Orphans = {1}
    /\ workers[1].port = BasePort + 3
    /\ workers[2] = [path |-> PathSeq[1], port |-> BasePort + 4, st |-> "up"]
    /\ nextPort = BasePort + 5

\* C17: a cleanup invoked while an earlier one is in flight sends no signal
\* to a worker or to an attach process that has already been sent one.
C17_SecondCleanupSignalsNobodyTwice ==
    [][\A n \in CleanupIds :
          (cleanups[n].pc = "idle" /\ cleanups'[n].pc # "idle"
             /\ cleanups'[n].second)
          => /\ \A w \in DOMAIN sigWorker :
                   (sigWorker[w] > 0 \/ w \in sigKill)
                   => (sigWorker'[w] = sigWorker[w] /\ (w \in sigKill' => w \in sigKill))
             /\ \A port \in DOMAIN sigAttach :
                   port \in DOMAIN sigAttach'
                   => sigAttach'[port] = sigAttach[port]]_vars

\* C18: when forceKillAll has run in a cleanup, every worker of a project
\* the registry held when that cleanup was invoked has been sent the kill
\* signal, the ones stopServer had already stopped included.
C18_ForceKillReachesEveryWorker ==
    \A n \in CleanupIds :
        cleanups[n].pc = "forced" => cleanups[n].pids \subseteq sigKill

C20_SnapshotNeverChanges ==
    \A k \in DOMAIN snapshots : View(snapshots[k].ref) = snapshots[k].seen

\* A snapshot of two entries was returned; since then one of them has been
\* replaced by an update and the other one removed.
C20_Witness ==
    \E k \in DOMAIN snapshots : \E p, q \in DOMAIN snapshots[k].seen :
        /\ Has(mapHeap[ThisRegistry], p)
        /\ View(ThisRegistry)[p] # snapshots[k].seen[p]
        /\ ~Has(mapHeap[ThisRegistry], q)

\* The fields of a ProjectEntry.
EntryFields ==
    {"port", "pid", "status", "hasTUI", "tmuxPane", "sessionId", "startedAt",
     "lastActivity"}

\* C21: update on an absent key returns nothing and leaves the registry as
\* it was; on a present key the entry has the values of the partial in the
\* fields it names, the current time in lastActivity and its earlier value
\* in every other field (startedAt included), and the key set and every
\* other entry are as they were.
C21_UpdateMergesOrIsNoOp ==
    [][regRet'.op = "update"
       => LET p == regRet'.path
              u == regRet'.updates
              old == View(ThisRegistry)
              new == [q \in DOMAIN mapHeap'[ThisRegistry] |->
                         entryHeap'[mapHeap'[ThisRegistry][q]]]
          IN IF p \notin DOMAIN old
             THEN regRet'.ret = Undefined /\ new = old
             ELSE /\ regRet'.ret # Undefined
                  /\ entryHeap'[regRet'.ret] = new[p]
                  /\ DOMAIN new = DOMAIN old
                  /\ \A q \in (DOMAIN old) \ {p} : new[q] = old[q]
                  /\ \A f \in (DOMAIN u) \ {"lastActivity"} : new[p][f] = u[f]
                  /\ new[p].lastActivity = clock
                  /\ \A f \in EntryFields \ ((DOMAIN u) \cup {"lastActivity"}) :
                        new[p][f] = old[p][f]]_vars

\* update has just run on an absent key, after an update of the entry the
\* registry holds that was started at an earlier time.
C21_Witness ==
    /\ regRet.op = "update"
    /\ regRet.ret = Undefined
    /\ \E q \in DOMAIN mapHeap[ThisRegistry] :
          /\ View(ThisRegistry)[q].startedAt < View(ThisRegistry)[q].lastActivity
          /\ View(ThisRegistry)[q].status = "running"

\* The forwarding tasks of p that were started while the timer that is the
\* next to fire was pending, and that no close has aborted.
InterimStreams(p) ==
    {k \in StreamIds : /\ streams[k].path = p
                       /\ streams[k].st \in {"subscribing", "open"}
                       /\ ~streams[k].aborted
                       /\ streams[k].pend = retry[p]
                       /\ retry[p] > 0}

\* C22: when the retry timer of p fires, it starts no forwarding task if p
\* has no subscriber left, and none if a task that was started after the
\* timer was armed is still running for p.
C22_CancellationWinsOverRetry ==
    [][\A p \in Paths :
          (retry'[p] < retry[p]
             /\ (connections[p] = {} \/ InterimStreams(p) # {}))
          => \A k \in StreamIds :
                streams[k].st = "free" => streams'[k].st = "free"]_vars

C24_FailingSinkIsSkipped ==
    [][(written'.type # "none" /\ written'.failed # {})
       => /\ written'.ok = written'.sinks \ written'.failed
          /\ streams'[written'.task] = streams[written'.task]
          /\ streams'[written'.task].st = "open"
          /\ activeStreams' = activeStreams
          /\ retry' = retry]_vars

\* The write to one sink has just failed and the other sink of the path was
\* written the event.
C24_Witness ==
    /\ written.type # "none"
    /\ Cardinality(written.failed) = 1
    /\ Cardinality(written.ok) = 1

\* C25: the close of a sink of p removes that sink and no other from the
\* subscriber set of p; while another subscriber of p remains, every task
\* and every tracked controller is as it was; the subscriber sets, tasks and
\* controllers of the other paths are as they were in either case.
C25_UnsubscribeRemovesOnlyThatSink ==
    [][\A p \in Paths, s \in Sinks :
          (subRet' = "closed" /\ Unsubscribe(p, s))
          => /\ connections'[p] = connections[p] \ {s}
             /\ \A q \in Paths \ {p} : connections'[q] = connections[q]
             /\ connections'[p] # {}
                   => UNCHANGED <<activeStreams, streams>>
             /\ \A k \in StreamIds :
                   streams[k].path # p => streams'[k] = streams[k]
             /\ \A q \in Paths \ {p} :
                   /\ Has(activeStreams', q) = Has(activeStreams, q)
                   /\ Has(activeStreams, q)
                         => activeStreams'[q] = activeStreams[q]]_vars

\* A sink has just closed on a path that keeps a subscriber and its open,
\* tracked upstream stream, while another path has subscribers and an open
\* stream of its own.
C25_Witness ==
    /\ subRet = "closed"
    /\ \E p, q \in Paths :
          /\ p # q
          /\ Cardinality(connections[p]) = 1
          /\ Has(activeStreams, p)
          /\ streams[activeStreams[p]].st = "open"
          /\ ~streams[activeStreams[p]].aborted
          /\ connections[q] # {}
          /\ OpenStreams(q) # {}

\* C26: a forwarding task is started for p, by a subscribe or by the retry
\* timer, only when the entry of p exists with status running; a step that
\* removes the entry of p leaves every task and every controller as it was.
C26_OpenNeedsRunningEntry ==
    [][/\ \A k \in StreamIds :
             (streams[k].st = "free" /\ streams'[k].st # "free")
             => Running(streams'[k].path)
       /\ \A p \in Paths :
             (Has(registry, p) /\ ~Has(registry', p))
             => UNCHANGED <<activeStreams, streams>>]_vars

\* The entry of a path has been removed while its subscriber and its open,
\* tracked upstream stream are still there.
C26_Witness ==
    \E p \in Paths :
        /\ ~Has(registry, p)
        /\ connections[p] # {}
        /\ Has(activeStreams, p)
        /\ streams[activeStreams[p]].st = "open"

\* C27: no step makes the port cursor smaller.
C27_CursorNeverDecreases ==
    [][nextPort' >= nextPort]_vars

\* The ports of the range that a worker which has since died held and that
\* nobody holds now.
FreedPorts ==
    {workers[w].port : w \in {v \in Pids : workers[v].st \in {"dead", "exited"}}}
    \cap {port \in BasePort .. MaxPort : ~Bound(port)}

\* C28: a port of the range that a since-stopped worker held and that is
\* free is available to allocate again: no allocation fails for want of a
\* port while there is such a port.
C28_FreedPortIsAvailableAgain ==
    [][\A c \in CallIds :
          (calls[c].outcome # "PortExhausted"
             /\ calls'[c].outcome = "PortExhausted")
          => FreedPorts = {}]_vars

\* C29: the listener is started only after the cursor has been seeded from
\* the process scan, and a startServer call exists only once the listener
\* is started: no call reads the cursor before the scan has set it.
C29_SeededBeforeFirstAllocate ==
    /\ boot.listening => boot.seeded
    /\ \A c \in CallIds : calls[c].pc # "idle" => boot.seeded

\* A call has allocated the port after the one a worker of the earlier run
\* was found on.
C29_Witness ==
    \E c \in CallIds :
        /\ calls[c].how = "spawned"
        /\ boot.seeded
        /\ FoundPorts # {}
        /\ calls[c].port = SetMax(FoundPorts) + 1

\* The status the registry shows for a path; (none) when it has no entry.
StatusOf(reg, p) == IF Has(reg, p) THEN reg[p].status ELSE "none"

\* C30: per project path the status only moves along
\* (none) -> starting -> running -> {stopped, error}: an entry is created
\* with status starting, becomes running only from starting, and a stopped
\* or error entry changes only by a new spawn that puts it back to starting
\* (or by the removal of the entry).
C30_StatusStateMachine ==
    [][\A p \in Paths :
          \/ StatusOf(registry', p) = StatusOf(registry, p)
          \/ StatusOf(registry', p) = "none"
          \/ <<StatusOf(registry, p), StatusOf(registry', p)>>
                \in {<<"none", "starting">>, <<"starting", "running">>,
                     <<"starting", "stopped">>, <<"starting", "error">>,
                     <<"running", "stopped">>, <<"running", "error">>,
                     <<"stopped", "starting">>, <<"error", "starting">>}]_vars

\* C31: an entry whose status is not running has no session id.
C31_SessionOnlyWhileRunning ==
    \A p \in Paths :
        (Has(registry, p) /\ registry[p].status # "running")
        => registry[p].sessionId = Null

CallStep(c) ==
    /\ InFlight(c)
    /\ [calls'[c] EXCEPT !.overlap = {}] # [calls[c] EXCEPT !.overlap = {}]

\* C33: once stopServer(p) has returned true, a startServer(p) call that was
\* in flight then neither creates nor changes an entry of p and adds no
\* handle of p to the tracked-process set.
C33_StopIsAuthoritative ==
    [][\A c \in halted :
          CallStep(c)
          => LET p == calls[c].path IN
             /\ Has(registry', p) = Has(registry, p)
             /\ Has(registry, p) => registry'[p] = registry[p]
             /\ Has(processes', p) => (Has(processes, p)
                                       /\ processes'[p] = processes[p])]_vars

\* C34: when startServer(p) resolves with port x after it found a healthy
\* worker or spawned one, the registry has at that moment an entry of p with
\* port x and status running.
C34_ResolvedMeansRunningEntry ==
    [][\A c \in CallIds :
          (InFlight(c) /\ calls'[c].pc = "done" /\ calls'[c].outcome = "ok"
             /\ calls'[c].how \in {"existing", "spawned"})
          => /\ Has(registry', calls[c].path)
             /\ registry'[calls[c].path].port = calls'[c].port
             /\ registry'[calls[c].path].status = "running"]_vars

\* C35: the exit of a worker is recorded only in that worker's own
\* bookkeeping: when the handle tracked for its path is another worker's the
\* handle stays, and when the entry of its path has another worker's pid the
\* entry is left as it was.
C35_ExitTouchesOwnBookkeepingOnly ==
    [][\A w \in Pids :
          (workers[w].st = "dead" /\ workers'[w].st = "exited")
          => LET p == workers[w].path IN
             /\ (Has(processes, p) /\ processes[p] # w)
                   => (Has(processes', p) /\ processes'[p] = processes[p])
             /\ (Has(registry, p) /\ registry[p].pid # w)
                   => (Has(registry', p) /\ registry'[p] = registry[p])]_vars

\* C36: every worker that startServer spawned, that is alive and that has
\* been sent no termination signal has its handle in the tracked-process
\* set or its pid in a registry entry.
C36_NoWorkerIsLost ==
    \A w \in Pids :
        (workers[w].path # "-" /\ Alive(w) /\ sigWorker[w] = 0
           /\ w \notin sigKill)
        => \/ \E p \in DOMAIN processes : processes[p] = w
           \/ \E p \in DOMAIN registry : registry[p].pid = w

\* C37: an entry is marked running only by the call whose health poll of
\* that entry's own port succeeded, while the worker with the entry's pid is
\* the one answering on that port.
C37_RunningMeansOwnWorkerProbed ==
    [][\A p \in Paths :
          (Has(registry', p) /\ registry'[p].status = "running"
             /\ (Has(registry, p) => registry[p].status # "running"))
          => LET e == registry'[p] IN
             /\ workers[e.pid].st = "healthy"
             /\ workers[e.pid].port = e.port
             /\ \E c \in CallIds :
                   /\ calls[c].pc = "wait"
                   /\ calls'[c].pc = "done"
                   /\ calls[c].path = p
                   /\ calls[c].port = e.port]_vars

\* C38: when the exit of the worker a startServer call spawned has been
\* recorded (its entry is stopped, without session id), the later steps of
\* that call leave the status stopped, the end of its health wait by
\* timeout included.
C38_RecordedExitIsNotOverwritten ==
    [][\A c \in CallIds :
          LET p == calls[c].path IN
          (calls[c].pc = "wait" /\ calls'[c].pc # "wait"
             /\ Has(registry, p)
             /\ registry[p].port = calls[c].port
             /\ workers[registry[p].pid].st = "exited"
             /\ registry[p].status = "stopped"
             /\ registry[p].sessionId = Null)
          => (Has(registry', p) /\ registry'[p].status = "stopped")]_vars

\* C39: a step of a startServer call (a respawn of an unhealthy worker
\* included) or of a worker (it binds its port, dies, its exit is observed)
\* leaves hasTUI and the tmux pane of every entry that is there before and
\* after the step as they were.
C39_SupervisorKeepsTUIFields ==
    [][((\E c \in CallIds : CallStep(c)) \/ workers' # workers)
       => \A p \in Paths :
             (Has(registry, p) /\ Has(registry', p))
             => /\ registry'[p].hasTUI = registry[p].hasTUI
                /\ registry'[p].tmuxPane = registry[p].tmuxPane]_vars

\* C40: whenever the tracked-process set holds a handle for p, the registry
\* has an entry of p whose pid is the pid of that handle.
C40_HandleHasMatchingEntry ==
    \A p \in DOMAIN processes :
        Has(registry, p) /\ registry[p].pid = processes[p]

\* A handle is tracked for a path whose start timed out: the entry shows
\* error and has the pid of the handle, and the worker is still alive.
C40_Witness ==
    \E p \in DOMAIN processes :
        /\ Has(registry, p)
        /\ registry[p].pid = processes[p]
        /\ registry[p].status = "error"
        /\ Alive(processes[p])

====
